---------------------------- MODULE Spec2Model ----------------------------
(***************************************************************************)
(* In-memory relational engine of src/database.py: Column, Table            *)
(* (insert / select / update / delete with WHERE filtering) and Database    *)
(* (create_table / drop_table registry).                                    *)
(*                                                                          *)
(* Python values are records [k, n, s]: k is type(value).__name__, n the    *)
(* number (an int or a bool as itself, a float in tenths), s the text of a  *)
(* str.  Python strings are TLA+ strings.  Every raise site of the code is  *)
(* an error kind: the code raises ValueError everywhere and the kinds are   *)
(* told apart by the raise site, named as the design document names them;   *)
(* an exception Python itself raises keeps its Python name (TypeError,      *)
(* IndexError).                                                             *)
(***************************************************************************)
EXTENDS Integers, Sequences, FiniteSets, TLC

VARIABLES
    tables,     \* Database.tables: table name -> Table
    last        \* the last call: [op, err, ret]; err = "" when it returned

vars == <<tables, last>>

---------------------------------------------------------------------------
(* Bounds of the model                                                     *)

\* Insert is offered while next_id <= MaxNextId, in every specification.
MaxNextId == 2

\* In LikeSpec the column values and the LIKE patterns have at most this many
\* characters.
MaxLikeLen == 2

---------------------------------------------------------------------------
(* Python str                                                               *)

\* The characters of the inputs, in code-point order.
Alphabet == " \"%'+-.0123456789<=>ABCDEFGHIJKLMNOPQRSTUVWXYZ_abcdefghijklmnopqrstuvwxyz"

RECURSIVE OrdFrom(_, _)
OrdFrom(c, i) ==
    IF i > Len(Alphabet) THEN 0
    ELSE IF SubSeq(Alphabet, i, i) = c THEN i
    ELSE OrdFrom(c, i + 1)

\* ord(c), up to a monotone renumbering
Ord(c) == OrdFrom(c, 1)

\* a < b for two str
RECURSIVE StrLess(_, _)
StrLess(a, b) ==
    IF b = "" THEN FALSE
    ELSE IF a = "" THEN TRUE
    ELSE IF Head(a) = Head(b) THEN StrLess(Tail(a), Tail(b))
    ELSE Ord(Head(a)) < Ord(Head(b))

\* s.startswith(sub, i - 1), i counted from 1
StartsAt(s, sub, i) ==
    /\ i + Len(sub) - 1 <= Len(s)
    /\ SubSeq(s, i, i + Len(sub) - 1) = sub

\* s.find(sub, i - 1) + 1: the first place >= i where sub occurs, 0 if none
RECURSIVE FindFrom(_, _, _)
FindFrom(s, sub, i) ==
    IF i + Len(sub) - 1 > Len(s) THEN 0
    ELSE IF StartsAt(s, sub, i) THEN i
    ELSE FindFrom(s, sub, i + 1)

\* sub in s
Contains(s, sub) == FindFrom(s, sub, 1) # 0

\* s.split(sep), sep not empty
RECURSIVE Split(_, _)
Split(s, sep) ==
    LET i == FindFrom(s, sep, 1)
    IN  IF i = 0 THEN <<s>>
        ELSE <<SubSeq(s, 1, i - 1)>> \o Split(SubSeq(s, i + Len(sep), Len(s)), sep)

\* s.replace(old, new), old not empty
RECURSIVE Replace(_, _, _)
Replace(s, old, new) ==
    LET i == FindFrom(s, old, 1)
    IN  IF i = 0 THEN s
        ELSE SubSeq(s, 1, i - 1) \o new \o Replace(SubSeq(s, i + Len(old), Len(s)), old, new)

RECURSIVE LStripChars(_, _)
LStripChars(s, chars) ==
    IF s # "" /\ Contains(chars, Head(s)) THEN LStripChars(Tail(s), chars) ELSE s

RECURSIVE RStripChars(_, _)
RStripChars(s, chars) ==
    IF s # "" /\ Contains(chars, SubSeq(s, Len(s), Len(s)))
    THEN RStripChars(SubSeq(s, 1, Len(s) - 1), chars)
    ELSE s

\* s.strip(chars)
StripChars(s, chars) == RStripChars(LStripChars(s, chars), chars)

\* s.strip(): the whitespace of the inputs is the space
Strip(s) == StripChars(s, " ")

LowerCase == "abcdefghijklmnopqrstuvwxyz"

UpperCase == "ABCDEFGHIJKLMNOPQRSTUVWXYZ"

\* s.upper()
RECURSIVE Upper(_)
Upper(s) ==
    IF s = "" THEN ""
    ELSE LET i == FindFrom(LowerCase, Head(s), 1)
         IN  (IF i = 0 THEN Head(s) ELSE SubSeq(UpperCase, i, i)) \o Upper(Tail(s))

Digits == "0123456789"

IsDigit(c) == Contains(Digits, c)

DigitVal(c) == FindFrom(Digits, c, 1) - 1

RECURSIVE AllDigits(_)
AllDigits(s) == s = "" \/ (IsDigit(Head(s)) /\ AllDigits(Tail(s)))

\* the number a string of digits writes
RECURSIVE DigitsVal(_)
DigitsVal(s) ==
    IF s = "" THEN 0
    ELSE 10 * DigitsVal(SubSeq(s, 1, Len(s) - 1)) + DigitVal(SubSeq(s, Len(s), Len(s)))

\* str(n) for an int n >= 0
RECURSIVE NatToStr(_)
NatToStr(n) ==
    IF n < 10 THEN SubSeq(Digits, n + 1, n + 1)
    ELSE NatToStr(n \div 10) \o SubSeq(Digits, (n % 10) + 1, (n % 10) + 1)

\* str(n) for an int
IntToStr(n) == IF n < 0 THEN "-" \o NatToStr(0 - n) ELSE NatToStr(n)

\* str(x) for a float x given in tenths
FloatToStr(t) ==
    LET a == IF t < 0 THEN 0 - t ELSE t
    IN  (IF t < 0 THEN "-" ELSE "") \o NatToStr(a \div 10) \o "." \o NatToStr(a % 10)

\* The sign and the rest of a numeric literal, surrounding whitespace dropped.
Unsigned(s) ==
    LET t == Strip(s)
    IN  IF t # "" /\ Head(t) \in {"+", "-"} THEN Tail(t) ELSE t

Sign(s) == LET t == Strip(s) IN IF t # "" /\ Head(t) = "-" THEN 0 - 1 ELSE 1

\* int(s) succeeds: optional whitespace, an optional sign, digits
IntParses(s) == Unsigned(s) # "" /\ AllDigits(Unsigned(s))

\* int(s)
IntOf(s) == Sign(s) * DigitsVal(Unsigned(s))

\* float(s) succeeds: digits, with at most one "." in or around them (an
\* exponent, inf and nan are not among the inputs)
FloatParses(s) ==
    LET u == Unsigned(s)
        p == Split(u, ".")
    IN  \/ IntParses(s)
        \/ /\ Len(p) = 2
           /\ AllDigits(p[1]) /\ AllDigits(p[2])
           /\ p[1] \o p[2] # ""

\* float(s), in tenths (the inputs write no fraction finer than a tenth)
FloatOf(s) ==
    LET u == Unsigned(s)
        p == Split(u, ".")
        f == IF Len(p) = 2 /\ p[2] # "" THEN DigitVal(Head(p[2])) ELSE 0
    IN  Sign(s) * (10 * DigitsVal(p[1]) + f)

---------------------------------------------------------------------------
(* Python values                                                           *)

PyNone == [k |-> "NoneType", n |-> 0, s |-> ""]

PyInt(i) == [k |-> "int", n |-> i, s |-> ""]

\* a float, given in tenths
PyFloat(t) == [k |-> "float", n |-> t, s |-> ""]

PyStr(x) == [k |-> "str", n |-> 0, s |-> x]

PyBool(b) == [k |-> "bool", n |-> IF b THEN 1 ELSE 0, s |-> ""]

\* isinstance(v, int): bool is a subclass of int
IsInstanceInt(v) == v.k \in {"int", "bool"}

\* isinstance(v, float)
IsInstanceFloat(v) == v.k = "float"

\* isinstance(v, str)
IsInstanceStr(v) == v.k = "str"

IsNumber(v) == IsInstanceInt(v) \/ IsInstanceFloat(v)

\* the number in tenths
Tenths(v) == IF IsInstanceFloat(v) THEN v.n ELSE 10 * v.n

\* a == b
PyEq(a, b) ==
    IF IsNumber(a) /\ IsNumber(b) THEN Tenths(a) = Tenths(b)
    ELSE IF IsInstanceStr(a) /\ IsInstanceStr(b) THEN a.s = b.s
    ELSE a.k = "NoneType" /\ b.k = "NoneType"

\* a < b is defined: two numbers or two str; otherwise Python raises TypeError
Orderable(a, b) ==
    \/ IsNumber(a) /\ IsNumber(b)
    \/ IsInstanceStr(a) /\ IsInstanceStr(b)

\* a < b, for Orderable(a, b)
PyLess(a, b) ==
    IF IsNumber(a) THEN Tenths(a) < Tenths(b) ELSE StrLess(a.s, b.s)

\* str(v)
PyStrOf(v) ==
    CASE v.k = "NoneType" -> "None"
      [] v.k = "int" -> IntToStr(v.n)
      [] v.k = "float" -> FloatToStr(v.n)
      [] v.k = "bool" -> (IF v.n = 1 THEN "True" ELSE "False")
      [] OTHER -> v.s

\* A list comprehension [f[i] for i in ...], built once.
List(f) == f \o <<>>

\* An Optional argument: None, or a value.
NoWhere == [given |-> FALSE, v |-> ""]

Where(c) == [given |-> TRUE, v |-> c]

NoColumns == [given |-> FALSE, v |-> <<>>]

Columns(cs) == [given |-> TRUE, v |-> cs]

\* What a call that raised hands back.
NoRet == <<>>

\* The outcome of evaluating a predicate: err = "" and the boolean, or the
\* error raised.
Returns(b) == [err |-> "", val |-> b]

Raises(e) == [err |-> e, val |-> FALSE]

---------------------------------------------------------------------------
(* class Column                                                            *)

SupportedTypes == {"INTEGER", "TEXT", "REAL"}

\* Column.__init__ raises: the type, upper-cased, is not a supported one
ColumnRaises(data_type) == Upper(data_type) \notin SupportedTypes

\* Column(name, data_type, is_primary_key)
Column(name, data_type, is_primary_key) ==
    [name |-> name, data_type |-> Upper(data_type), is_primary_key |-> is_primary_key]

---------------------------------------------------------------------------
(* The condition evaluator: Table._evaluate_where, Table._evaluate_condition *)

\* re.match("^" + regex + "$", value) for the regex a LIKE pattern becomes:
\* ".*" is any run of characters, another "." any one character, and any
\* other character of the inputs (letters, digits) itself.
RECURSIVE RegexMatch(_, _)
RegexMatch(regex, value) ==
    IF regex = "" THEN value = ""
    ELSE IF StartsAt(regex, ".*", 1)
    THEN \E k \in 0..Len(value) :
            RegexMatch(SubSeq(regex, 3, Len(regex)), SubSeq(value, k + 1, Len(value)))
    ELSE IF Head(regex) = "."
    THEN value # "" /\ RegexMatch(Tail(regex), Tail(value))
    ELSE value # "" /\ Head(value) = Head(regex) /\ RegexMatch(Tail(regex), Tail(value))

\* What _evaluate_condition reads out of the condition's text before it looks
\* at the row: the shape, the column named, the operator, the operand (for
\* LIKE the regex the pattern becomes), and what int() and float() make of
\* the operand.
Parsed(shape, op, col_name, text) ==
    [shape |-> shape, op |-> op, col_name |-> col_name, text |-> text,
     is_int |-> IntParses(text), int |-> IF IntParses(text) THEN IntOf(text) ELSE 0,
     is_float |-> FloatParses(text),
     float |-> IF FloatParses(text) THEN FloatOf(text) ELSE 0]

Invalid == Parsed("invalid", "", "", "")

\* the LIKE branch: the split, the operand count, the column, the regex
ParseLike(condition) ==
    LET parts == Split(condition, " LIKE ")
    IN  IF Len(parts) # 2 THEN Invalid
        ELSE LET col_name == Strip(parts[1])
                 pattern == StripChars(Strip(parts[2]), "'\"")
                 regex_pattern == Replace(Replace(pattern, "%", ".*"), "_", ".")
             IN  Parsed("LIKE", "LIKE", col_name, regex_pattern)

\* the operators, in the order the code tries them
Operators == <<">=", "<=", "<>", "=", ">", "<">>

\* the loop over the operators, from the i-th on: the first one found in the
\* condition is split on
RECURSIVE ParseOperators(_, _)
ParseOperators(condition, i) ==
    IF i > Len(Operators) THEN Invalid
    ELSE LET sep == " " \o Operators[i] \o " "
         IN  IF Contains(condition, sep)
             THEN LET parts == Split(condition, sep)
                  IN  IF Len(parts) # 2 THEN Invalid
                      ELSE Parsed("compare", Operators[i], Strip(parts[1]),
                                  StripChars(Strip(parts[2]), "'\""))
             ELSE ParseOperators(condition, i + 1)

\* the text processing of _evaluate_condition(row, condition)
ParseCondition(cond) ==
    LET condition == Strip(cond)
    IN  IF Contains(condition, " LIKE ") THEN ParseLike(condition)
        ELSE ParseOperators(condition, 1)

\* the text processing of _evaluate_where: the conditions, each stripped
ParseWhere(where_clause) ==
    LET conditions == Split(where_clause, " AND ")
    IN  List([i \in 1..Len(conditions) |-> ParseCondition(Strip(conditions[i]))])

\* the literal of a comparison, parsed by the kind of the row's value: what
\* int() or float() rejects stays a str
ParseValue(row_value, p) ==
    IF IsInstanceInt(row_value)
    THEN (IF p.is_int THEN PyInt(p.int) ELSE PyStr(p.text))
    ELSE IF IsInstanceFloat(row_value)
    THEN (IF p.is_float THEN PyFloat(p.float) ELSE PyStr(p.text))
    ELSE PyStr(p.text)

\* row_value <op> compare_value; an ordering of unlike kinds raises TypeError
Compare(op, row_value, compare_value) ==
    CASE op = "=" -> Returns(PyEq(row_value, compare_value))
      [] op = "<>" -> Returns(~PyEq(row_value, compare_value))
      [] OTHER ->
            IF ~Orderable(row_value, compare_value) THEN Raises("TypeError")
            ELSE CASE op = ">" -> Returns(PyLess(compare_value, row_value))
                   [] op = "<" -> Returns(PyLess(row_value, compare_value))
                   [] op = ">=" -> Returns(~PyLess(row_value, compare_value))
                   [] OTHER -> Returns(~PyLess(compare_value, row_value))

\* Table._evaluate_condition(row, condition), the condition given parsed
evaluate_condition(row, p) ==
    IF p.shape = "invalid" THEN Raises("MalformedPredicateError")
    ELSE IF p.col_name \notin DOMAIN row THEN Raises("UnknownColumnError")
    ELSE IF p.shape = "LIKE"
    THEN Returns(RegexMatch(p.text, PyStrOf(row[p.col_name])))
    ELSE Compare(p.op, row[p.col_name], ParseValue(row[p.col_name], p))

\* the loop of _evaluate_where over the conditions, from the i-th on: the
\* first false condition returns False, the first error is raised
RECURSIVE EvaluateConditions(_, _, _)
\* a loop that returns the outcome of the first condition
ConditionStepReturnsFirst(row, conditions, i, r) ==
    IF r.err # "" THEN r ELSE Returns(r.val)

\* what the loop does with r, the outcome of the i-th condition
ConditionStep(row, conditions, i, r) ==
    IF r.err # "" THEN r
    ELSE IF ~r.val THEN Returns(FALSE)
    ELSE EvaluateConditions(row, conditions, i + 1)

EvaluateConditions(row, conditions, i) ==
    IF i > Len(conditions) THEN Returns(TRUE)
    ELSE ConditionStep(row, conditions, i, evaluate_condition(row, conditions[i]))

\* atomic conditions
Atoms == {"id > 1", "name = 'b'", "score >= 1.5", "nocol = 1"}

\* the condition arguments: None, the empty string, one condition, two
\* conditions joined by AND, a condition of no supported shape
WhereClauses ==
    {NoWhere, Where(""), Where("name LIKE 'a%'"), Where("id")}
        \cup {Where(a) : a \in Atoms}
        \cup {Where(a \o " AND " \o b) : a, b \in Atoms}

\* the parse of every condition argument of the inputs, computed once
WhereTable ==
    LET given == {w.v : w \in {x \in WhereClauses : x.given}}
    IN  [w \in given |-> ParseWhere(w)] @@ <<>>

\* the parse of where_clause: looked up, or made
Conditions(table, where_clause) ==
    IF where_clause \in DOMAIN table THEN table[where_clause] ELSE ParseWhere(where_clause)

\* Table._evaluate_where(row, where_clause)
evaluate_where(row, where_clause) ==
    EvaluateConditions(row, Conditions(WhereTable, where_clause), 1)

---------------------------------------------------------------------------
(* class Table                                                             *)

\* {col.name: col for col in columns}: a later column of the same name wins
RECURSIVE ColumnMap(_)
ColumnMap(columns) ==
    IF columns = <<>> THEN <<>>
    ELSE LET n == Len(columns)
         IN  (columns[n].name :> columns[n]) @@ ColumnMap(SubSeq(columns, 1, n - 1))

\* Table.__init__ raises: the primary key is not a column
TableRaises(columns, primary_key) == primary_key \notin DOMAIN ColumnMap(columns)

\* Table(name, columns, primary_key)
Table(name, columns, primary_key) ==
    [name |-> name,
     columns |-> columns,
     column_map |-> ColumnMap(columns),
     primary_key |-> primary_key,
     rows |-> <<>>,
     next_id |-> 1]

\* Table._validate_types(row) raises: some value that is not None is not an
\* instance of what its column declares (the first such item, in the
\* mapping's order, is the one the message names)
validate_types(t, row) ==
    \E col_name \in DOMAIN row :
        LET value == row[col_name]
        IN  /\ value # PyNone
            /\ col_name \in DOMAIN t.column_map
            /\ LET col == t.column_map[col_name]
               IN  \/ col.data_type = "INTEGER" /\ ~IsInstanceInt(value)
                   \/ col.data_type = "TEXT" /\ ~IsInstanceStr(value)
                   \/ col.data_type = "REAL" /\ ~(IsInstanceInt(value) \/ IsInstanceFloat(value))

RECURSIVE BuildRow(_, _, _, _)
\* a loop that generates the first id from next_id on that no stored row has
BuildRowSkipsTaken(t, values, i, row) ==
    IF i > Len(t.columns) THEN row
    ELSE LET col == t.columns[i]
             taken == {n \in t.next_id..(t.next_id + Len(t.rows)) :
                          \E k \in 1..Len(t.rows) : PyEq(t.rows[k][t.primary_key], PyInt(n))}
             free == CHOOSE n \in (t.next_id..(t.next_id + Len(t.rows))) \ taken :
                         \A m \in t.next_id..(n - 1) : m \in taken
             v == IF col.name \in DOMAIN values THEN values[col.name]
                  ELSE IF col.is_primary_key THEN PyInt(free)
                  ELSE PyNone
         IN  BuildRow(t, values, i + 1, (col.name :> v) @@ row)

\* the loop of insert over the columns, from the i-th on, building the row
BuildRow(t, values, i, row) ==
    IF i > Len(t.columns) THEN row
    ELSE LET col == t.columns[i]
             v == IF col.name \in DOMAIN values THEN values[col.name]
                  ELSE IF col.is_primary_key THEN PyInt(t.next_id)
                  ELSE PyNone
         IN  BuildRow(t, values, i + 1, (col.name :> v) @@ row)

\* a scan that stops after the first stored row
PrimaryKeyExistsFirstRow(t, pk_val) ==
    t.rows # <<>> /\ PyEq(t.rows[1][t.primary_key], pk_val)

\* the primary-key scan of insert finds a row
PrimaryKeyExists(t, pk_val) ==
    \E i \in 1..Len(t.rows) : PyEq(t.rows[i][t.primary_key], pk_val)

\* an insert that appends the row before it scans for the primary key
InsertRowAppendsFirst(t, row) ==
    IF validate_types(t, row)
    THEN [err |-> "TypeMismatchError", ret |-> NoRet, table |-> t]
    ELSE IF PrimaryKeyExists(t, row[t.primary_key])
    THEN [err |-> "UniqueConstraintError", ret |-> NoRet,
          table |-> [t EXCEPT !.rows = Append(@, row)]]
    ELSE [err |-> "", ret |-> row[t.primary_key],
          table |-> [t EXCEPT !.rows = Append(@, row), !.next_id = @ + 1]]

\* an insert that advances next_id only when it used it
InsertRowAdvanceOnAuto(t, row) ==
    IF validate_types(t, row)
    THEN [err |-> "TypeMismatchError", ret |-> NoRet, table |-> t]
    ELSE IF PrimaryKeyExists(t, row[t.primary_key])
    THEN [err |-> "UniqueConstraintError", ret |-> NoRet, table |-> t]
    ELSE [err |-> "", ret |-> row[t.primary_key],
          table |-> [t EXCEPT !.rows = Append(@, row),
                              !.next_id = IF row[t.primary_key] = PyInt(@)
                                          THEN @ + 1 ELSE @]]

\* insert, from the type validation on, of the row built
InsertRow(t, row) ==
    IF validate_types(t, row)
    THEN [err |-> "TypeMismatchError", ret |-> NoRet, table |-> t]
    ELSE IF PrimaryKeyExists(t, row[t.primary_key])
    THEN [err |-> "UniqueConstraintError", ret |-> NoRet, table |-> t]
    ELSE [err |-> "", ret |-> row[t.primary_key],
          table |-> [t EXCEPT !.rows = Append(@, row), !.next_id = @ + 1]]

\* Table.insert(values): the error, what is returned, and the table after
insert(t, values) == InsertRow(t, BuildRow(t, values, 1, <<>>))

\* [row for row in rows if _evaluate_where(row, where_clause) == want], from
\* the i-th row on: the rows kept, or the first error raised
RECURSIVE FilterRows(_, _, _, _, _)
\* what the comprehension does with r, the outcome of the condition on the
\* i-th row
FilterStep(rows, where_clause, want, i, kept, r) ==
    IF r.err # "" THEN [err |-> r.err, rows |-> <<>>]
    ELSE FilterRows(rows, where_clause, want, i + 1,
                    IF r.val = want THEN Append(kept, rows[i]) ELSE kept)

FilterRows(rows, where_clause, want, i, kept) ==
    IF i > Len(rows) THEN [err |-> "", rows |-> kept]
    ELSE FilterStep(rows, where_clause, want, i, kept,
                    evaluate_where(rows[i], where_clause))

RECURSIVE Project(_, _, _, _)
\* a projection that puts each further column in front
ProjectReversed(row, columns, i, items) ==
    IF i > Len(columns) THEN items
    ELSE Project(row, columns, i + 1,
                 IF \E j \in 1..Len(items) : items[j][1] = columns[i]
                 THEN items
                 ELSE << <<columns[i], row[columns[i]]>> >> \o items)

\* {col: row[col] for col in columns}: the dict as its items in order; a
\* column asked for twice is one key, at its first place
Project(row, columns, i, items) ==
    IF i > Len(columns) THEN items
    ELSE Project(row, columns, i + 1,
                 IF \E j \in 1..Len(items) : items[j][1] = columns[i]
                 THEN items
                 ELSE Append(items, <<columns[i], row[columns[i]]>>))

\* [col.name for col in self.columns]
ColumnNames(t) == List([i \in 1..Len(t.columns) |-> t.columns[i].name])

\* a select that keeps the rows it filtered as the table's rows
SelectRowsStoresFiltered(t, cols, filtered) ==
    IF filtered.err # ""
    THEN [err |-> filtered.err, ret |-> NoRet, table |-> t]
    ELSE [err |-> "",
          ret |-> List([i \in 1..Len(filtered.rows) |->
                            Project(filtered.rows[i], cols, 1, <<>>)]),
          table |-> [t EXCEPT !.rows = filtered.rows]]

\* select, from the projection on, of the rows the filter kept (or its error)
SelectRows(t, cols, filtered) ==
    IF filtered.err # ""
    THEN [err |-> filtered.err, ret |-> NoRet, table |-> t]
    ELSE [err |-> "",
          ret |-> List([i \in 1..Len(filtered.rows) |->
                            Project(filtered.rows[i], cols, 1, <<>>)]),
          table |-> t]

\* select, from the column check on, of the columns asked for
SelectColumnsOf(t, cols, where_clause) ==
    IF \E i \in 1..Len(cols) : cols[i] \notin DOMAIN t.column_map
    THEN [err |-> "UnknownColumnError", ret |-> NoRet, table |-> t]
    ELSE SelectRows(t, cols,
                    IF where_clause.given /\ where_clause.v # ""
                    THEN FilterRows(t.rows, where_clause.v, TRUE, 1, <<>>)
                    ELSE [err |-> "", rows |-> t.rows])

\* Table.select(columns, where_clause)
select(t, columns, where_clause) ==
    SelectColumnsOf(t, IF columns.given THEN columns.v ELSE ColumnNames(t), where_clause)

\* the loop of update over the rows, from the i-th on: a row that matches is
\* merged in place, and an error raised by the condition leaves the rows
\* merged so far as they are
RECURSIVE UpdateRows(_, _, _, _, _)
\* a loop that replaces a matching row by the values
UpdateStepReplaces(rows, values, where_clause, i, updated_count, r) ==
    IF r.err # "" THEN [err |-> r.err, ret |-> NoRet, rows |-> rows]
    ELSE IF r.val
    THEN UpdateRows([rows EXCEPT ![i] = values], values, where_clause,
                    i + 1, updated_count + 1)
    ELSE UpdateRows(rows, values, where_clause, i + 1, updated_count)

\* what the loop does with r, the outcome of the match on the i-th row
UpdateStep(rows, values, where_clause, i, updated_count, r) ==
    IF r.err # "" THEN [err |-> r.err, ret |-> NoRet, rows |-> rows]
    ELSE IF r.val
    THEN UpdateRows([rows EXCEPT ![i] = values @@ @], values, where_clause,
                    i + 1, updated_count + 1)
    ELSE UpdateRows(rows, values, where_clause, i + 1, updated_count)

UpdateRows(rows, values, where_clause, i, updated_count) ==
    IF i > Len(rows) THEN [err |-> "", ret |-> updated_count, rows |-> rows]
    ELSE UpdateStep(rows, values, where_clause, i, updated_count,
                    IF ~where_clause.given THEN Returns(TRUE)
                    ELSE evaluate_where(rows[i], where_clause.v))

\* update, once the loop has ended with u
Updated(t, u) == [err |-> u.err, ret |-> u.ret, table |-> [t EXCEPT !.rows = u.rows]]

\* Table.update(values, where_clause)
update(t, values, where_clause) ==
    IF \E col_name \in DOMAIN values : col_name \notin DOMAIN t.column_map
    THEN [err |-> "UnknownColumnError", ret |-> NoRet, table |-> t]
    ELSE IF validate_types(t, values)
    THEN [err |-> "TypeMismatchError", ret |-> NoRet, table |-> t]
    ELSE Updated(t, UpdateRows(t.rows, values, where_clause, 1, 0))

\* a delete that returns the number of rows kept
DeletedCountsKept(t, new_rows) ==
    IF new_rows.err # ""
    THEN [err |-> new_rows.err, ret |-> NoRet, table |-> t]
    ELSE [err |-> "", ret |-> Len(new_rows.rows),
          table |-> [t EXCEPT !.rows = new_rows.rows]]

\* delete, once the comprehension has ended with new_rows
Deleted(t, new_rows) ==
    IF new_rows.err # ""
    THEN [err |-> new_rows.err, ret |-> NoRet, table |-> t]
    ELSE [err |-> "", ret |-> Len(t.rows) - Len(new_rows.rows),
          table |-> [t EXCEPT !.rows = new_rows.rows]]

\* Table.delete(where_clause)
delete(t, where_clause) ==
    IF ~where_clause.given
    THEN [err |-> "", ret |-> Len(t.rows), table |-> [t EXCEPT !.rows = <<>>]]
    ELSE Deleted(t, FilterRows(t.rows, where_clause.v, FALSE, 1, <<>>))

---------------------------------------------------------------------------
(* class Database                                                          *)

\* Database(): no table
EmptyDatabase == [n \in {} |-> <<>>]

\* the Column objects create_table builds: the first is the primary key
ColObjects(columns) ==
    List([i \in 1..Len(columns) |-> Column(columns[i][1], columns[i][2], i = 1)])

\* create_table, from the choice of the primary key on: the Table is
\* returned and registered
Register(db, name, col_objects) ==
    IF TableRaises(col_objects, col_objects[1].name)
    THEN [err |-> "SchemaError", ret |-> NoRet, tables |-> db]
    ELSE [err |-> "", ret |-> Table(name, col_objects, col_objects[1].name),
          tables |-> (name :> Table(name, col_objects, col_objects[1].name)) @@ db]

\* a create_table that does not look for the name in the registry
create_table_overwrites(db, name, columns) ==
    IF \E i \in 1..Len(columns) : ColumnRaises(columns[i][2])
    THEN [err |-> "SchemaError", ret |-> NoRet, tables |-> db]
    ELSE IF columns = <<>>
    THEN [err |-> "IndexError", ret |-> NoRet, tables |-> db]
    ELSE Register(db, name, ColObjects(columns))

\* Database.create_table(name, columns): the error, what is returned, and the
\* registry after
create_table(db, name, columns) ==
    IF name \in DOMAIN db
    THEN [err |-> "DuplicateTableError", ret |-> NoRet, tables |-> db]
    ELSE IF \E i \in 1..Len(columns) : ColumnRaises(columns[i][2])
    THEN [err |-> "SchemaError", ret |-> NoRet, tables |-> db]
    ELSE IF columns = <<>>
    THEN [err |-> "IndexError", ret |-> NoRet, tables |-> db]
    ELSE Register(db, name, ColObjects(columns))

\* Database.drop_table(name): what is returned, and the registry after
drop_table(db, name) ==
    IF name \in DOMAIN db
    THEN [err |-> "", ret |-> TRUE, tables |-> [n \in DOMAIN db \ {name} |-> db[n]]]
    ELSE [err |-> "", ret |-> FALSE, tables |-> db]

---------------------------------------------------------------------------
(* The inputs                                                              *)

\* the table the row operations are run on
MainTable == "t"

\* the names the registry is given
TableNames == {"t", "u"}

\* the column lists create_table is given: two schemas, an unsupported type,
\* no column
ColumnSpecs ==
    << << <<"id", "INTEGER">>, <<"name", "TEXT">> >>,
       << <<"id", "integer">>, <<"score", "Real">> >>,
       << <<"id", "INTEGER">>, <<"blob", "BLOB">> >>,
       << >> >>

Mapping0 == [c \in {} |-> PyNone]

\* the value mappings insert is given
InsertValues ==
    << Mapping0,
       [id |-> PyInt(1)],
       [id |-> PyInt(2)],
       [name |-> PyStr("ab")],
       [id |-> PyInt(1), name |-> PyStr("b")],
       [id |-> PyInt(1), name |-> PyInt(7)],
       [id |-> PyFloat(10)],
       [id |-> PyBool(TRUE)],
       [id |-> PyNone],
       [score |-> PyFloat(15)],
       [score |-> PyInt(2)],
       [score |-> PyStr("ab")] >>

\* the value mappings the registry's tables are given
DbInsertValues == SubSeq(InsertValues, 1, 3)

\* the value mappings update is given
UpdateValues ==
    << Mapping0,
       [name |-> PyStr("b")],
       [id |-> PyInt(1)],
       [score |-> PyFloat(15)],
       [name |-> PyInt(7)],
       [nocol |-> PyInt(1)],
       [id |-> PyFloat(10)] >>

\* the column lists select is given
SelectColumns == {NoColumns, Columns(<<"name", "id">>), Columns(<<"nocol">>)}

---------------------------------------------------------------------------
(* The calls                                                               *)

Init ==
    /\ tables = EmptyDatabase
    /\ last = [op |-> "Database", err |-> "", ret |-> NoRet]

\* a call on the registry ended with r
DbCall(op, r) ==
    /\ tables' = r.tables
    /\ last' = [op |-> op, err |-> r.err, ret |-> r.ret]

\* a call on table name ended with r
TableCall(name, op, r) ==
    /\ tables' = [tables EXCEPT ![name] = r.table]
    /\ last' = [op |-> op, err |-> r.err, ret |-> r.ret]

CreateTable(name, columns) ==
    DbCall("create_table", create_table(tables, name, columns))

DropTable(name) ==
    DbCall("drop_table", drop_table(tables, name))

Insert(name, values) ==
    /\ name \in DOMAIN tables
    /\ tables[name].next_id <= MaxNextId
    /\ TableCall(name, "insert", insert(tables[name], values))

Select(name, columns, where_clause) ==
    /\ name \in DOMAIN tables
    /\ TableCall(name, "select", select(tables[name], columns, where_clause))

Update(name, values, where_clause) ==
    /\ name \in DOMAIN tables
    /\ TableCall(name, "update", update(tables[name], values, where_clause))

Delete(name, where_clause) ==
    /\ name \in DOMAIN tables
    /\ TableCall(name, "delete", delete(tables[name], where_clause))

Next ==
    \/ \E columns \in 1..Len(ColumnSpecs) : CreateTable(MainTable, ColumnSpecs[columns])
    \/ DropTable(MainTable)
    \/ \E values \in 1..Len(InsertValues) : Insert(MainTable, InsertValues[values])
    \/ \E columns \in SelectColumns, where_clause \in WhereClauses :
            Select(MainTable, columns, where_clause)
    \/ \E values \in 1..Len(UpdateValues), where_clause \in WhereClauses :
            Update(MainTable, UpdateValues[values], where_clause)
    \/ \E where_clause \in WhereClauses : Delete(MainTable, where_clause)

Spec == Init /\ [][Next]_vars

\* One table, created and inserted into, and nothing else.
InsertNext ==
    \/ \E columns \in 1..Len(ColumnSpecs) : CreateTable(MainTable, ColumnSpecs[columns])
    \/ \E values \in 1..Len(InsertValues) : Insert(MainTable, InsertValues[values])

InsertSpec == Init /\ [][InsertNext]_vars

\* The registry: tables of several names created, filled and dropped.
DbNext ==
    \/ \E name \in TableNames, columns \in 1..Len(ColumnSpecs) :
            CreateTable(name, ColumnSpecs[columns])
    \/ \E name \in TableNames : DropTable(name)
    \/ \E name \in TableNames, values \in 1..Len(DbInsertValues) :
            Insert(name, DbInsertValues[values])

DbSpec == Init /\ [][DbNext]_vars

\* the strings over the characters, of at most n of them
RECURSIVE StringsUpTo(_, _)
StringsUpTo(chars, n) ==
    IF n = 0 THEN {""}
    ELSE LET shorter == StringsUpTo(chars, n - 1)
         IN  shorter \cup {x \o c : x \in shorter, c \in chars}

\* the texts a LIKE condition is evaluated on, and the patterns it is given
LikeValues == StringsUpTo({"a", "b", "."}, MaxLikeLen)

LikePatterns == StringsUpTo({"a", ".", "%", "_"}, MaxLikeLen)

\* A table of one row, whose name is any of the texts.
LikeInit ==
    \E value \in LikeValues :
        LET db == create_table(EmptyDatabase, MainTable, ColumnSpecs[1]).tables
            r == insert(db[MainTable], [name |-> PyStr(value)])
        IN  /\ tables = [db EXCEPT ![MainTable] = r.table]
            /\ last = [op |-> "insert", err |-> r.err, ret |-> r.ret]

\* _evaluate_where(row, where_clause) on the first row ended with r
EvaluateCall(where_clause, r) ==
    /\ last' = [op |-> "evaluate_where", err |-> r.err, ret |-> <<where_clause, r.val>>]
    /\ UNCHANGED tables

\* the first row is asked whether its name is LIKE the pattern
EvaluateLike(name, pattern) ==
    EvaluateCall(pattern,
                 evaluate_where(tables[name].rows[1], "name LIKE '" \o pattern \o "'"))

LikeNext == \E pattern \in LikePatterns : EvaluateLike(MainTable, pattern)

LikeSpec == LikeInit /\ [][LikeNext]_vars

---------------------------------------------------------------------------
(* The vocabulary of the properties                                        *)

HasTable == MainTable \in DOMAIN tables

\* the table the row operations are run on
T == tables[MainTable]

\* no two stored rows share a primary-key value
NoSharedPrimaryKey(t) ==
    \A i, j \in 1..Len(t.rows) :
        i < j => ~PyEq(t.rows[i][t.primary_key], t.rows[j][t.primary_key])

\* the primary-key value of an insert: the one supplied, or the next id
InsertedKey(t, values) ==
    IF t.primary_key \in DOMAIN values THEN values[t.primary_key] ELSE PyInt(t.next_id)

\* some stored row has this primary-key value
SharesKey(t, pk_val) ==
    \E i \in 1..Len(t.rows) : PyEq(t.rows[i][t.primary_key], pk_val)

\* the runtime kinds of a declared type: Integer is a whole number, Real any
\* number, Text a string
KindsOf(data_type) ==
    CASE data_type = "INTEGER" -> {"int"}
      [] data_type = "REAL" -> {"int", "float"}
      [] OTHER -> {"str"}

\* value v has the kind of column c of table t, or is null
Agrees(t, c, v) == v = PyNone \/ v.k \in KindsOf(t.column_map[c].data_type)

\* every value the mapping supplies for a column agrees with it
WellTyped(t, values) ==
    \A c \in DOMAIN values : c \in DOMAIN t.column_map => Agrees(t, c, values[c])

\* the mapping names a column the table does not declare
Undeclared(t, values) == \E c \in DOMAIN values : c \notin DOMAIN t.column_map

\* the condition, evaluated on the row, is true
Sat(row, cond) ==
    LET e == evaluate_where(row, cond) IN e.err = "" /\ e.val

\* the row matches the condition argument of update: any row when it is absent
Matches(row, where_clause) == ~where_clause.given \/ Sat(row, where_clause.v)

\* the indices of the rows that match
Matching(rows, where_clause) == {i \in 1..Len(rows) : Matches(rows[i], where_clause)}

\* the values merged into the row
Merged(row, values) ==
    [c \in DOMAIN row \cup DOMAIN values |->
        IF c \in DOMAIN values THEN values[c] ELSE row[c]]

\* a stored row as select shows it: every declared column, in declaration order
Shown(t, row) ==
    List([j \in 1..Len(t.columns) |-> <<t.columns[j].name, row[t.columns[j].name]>>])

ShownRows(t, rows) == List([i \in 1..Len(rows) |-> Shown(t, rows[i])])

\* select with no column list and no condition
SelectAll(t) == select(t, NoColumns, NoWhere)

\* a is b with some elements left out, the others in their order
RECURSIVE IsSubseq(_, _)
IsSubseq(a, b) ==
    IF a = <<>> THEN TRUE
    ELSE IF b = <<>> THEN FALSE
    ELSE IF Head(a) = Head(b) THEN IsSubseq(Tail(a), Tail(b))
    ELSE IsSubseq(a, Tail(b))

\* the rows, without those the test rejects
RECURSIVE Keep(_, _)
Keep(rows, keep) ==
    IF rows = <<>> THEN <<>>
    ELSE (IF Len(rows) \in keep THEN Append(Keep(SubSeq(rows, 1, Len(rows) - 1), keep), rows[Len(rows)])
          ELSE Keep(SubSeq(rows, 1, Len(rows) - 1), keep))

---------------------------------------------------------------------------
(* C1: uniqueness of the primary key under insert                          *)

\* C1, as stated: for every sequence of inserts into one table no two stored
\* rows share a primary-key value, and an insert whose primary-key value
\* equals that of a stored row raises UniqueConstraintError and leaves the
\* stored rows untouched.
C1_DuplicateRaisesUnique ==
    HasTable =>
        /\ NoSharedPrimaryKey(T)
        /\ \A v \in 1..Len(InsertValues) :
              LET r == insert(T, InsertValues[v])
              IN  SharesKey(T, InsertedKey(T, InsertValues[v])) =>
                      r.err = "UniqueConstraintError" /\ r.table.rows = T.rows

\* C1, amended: for every sequence of inserts into one table no two stored
\* rows share a primary-key value, and an insert whose primary-key value
\* equals that of a stored row fails and leaves the stored rows untouched:
\* with UniqueConstraintError when every value it supplies agrees with its
\* column, and with TypeMismatchError or UniqueConstraintError otherwise
\* (the types are validated before the rows are scanned).
C1_DuplicateFails ==
    HasTable =>
        /\ NoSharedPrimaryKey(T)
        /\ \A v \in 1..Len(InsertValues) :
              LET r == insert(T, InsertValues[v])
              IN  SharesKey(T, InsertedKey(T, InsertValues[v])) =>
                      /\ r.err \in {"UniqueConstraintError", "TypeMismatchError"}
                      /\ WellTyped(T, InsertValues[v]) => r.err = "UniqueConstraintError"
                      /\ r.table.rows = T.rows

\* a row is stored and an insert of its primary key has just been refused
C1_Witness ==
    /\ HasTable
    /\ Len(T.rows) = 1
    /\ last.op = "insert"
    /\ last.err = "UniqueConstraintError"

---------------------------------------------------------------------------
(* C2: uniqueness of the primary key under insert, update and delete       *)

\* C2: in every state reachable by inserts, updates and deletes on a table,
\* no two stored rows share a primary-key value, also when update sets the
\* primary-key column.
C2_PrimaryKeyUnique == HasTable => NoSharedPrimaryKey(T)

---------------------------------------------------------------------------
(* C3: a call that fails validation changes nothing                        *)

\* C3: an insert that raises (TypeMismatchError or UniqueConstraintError)
\* leaves the rows and next_id unchanged; an update whose values name an
\* undeclared column raises UnknownColumnError, and an update that raises
\* UnknownColumnError or TypeMismatchError leaves every stored row unchanged.
C3_NoPartialCommit ==
    HasTable =>
        /\ \A v \in 1..Len(InsertValues) :
              LET r == insert(T, InsertValues[v])
              IN  r.err # "" =>
                      /\ r.err \in {"TypeMismatchError", "UniqueConstraintError"}
                      /\ r.table.rows = T.rows
                      /\ r.table.next_id = T.next_id
        /\ \A v \in 1..Len(UpdateValues), w \in WhereClauses :
              LET r == update(T, UpdateValues[v], w)
              IN  /\ Undeclared(T, UpdateValues[v]) => r.err = "UnknownColumnError"
                  /\ r.err \in {"UnknownColumnError", "TypeMismatchError"} =>
                        r.table.rows = T.rows

\* rows are stored, and an update of a value of the wrong kind has just been
\* refused
C3_Witness ==
    /\ HasTable
    /\ Len(T.rows) = 2
    /\ last.op = "update"
    /\ last.err = "TypeMismatchError"

---------------------------------------------------------------------------
(* C4: next_id                                                             *)

\* C4: next_id is 1 in a table just created, never decreases, is one more
\* after every successful insert (whether the primary key was generated or
\* supplied), and is what it was after a failed insert and after select,
\* update and delete.
C4_NextAutoId ==
    [][/\ (~HasTable /\ HasTable') => T'.next_id = 1
       /\ (HasTable /\ HasTable') =>
             /\ T'.next_id >= T.next_id
             /\ T'.next_id = IF last'.op = "insert" /\ last'.err = ""
                             THEN T.next_id + 1
                             ELSE T.next_id]_vars

\* the second insert supplied its primary key, and next_id went on
C4_Witness ==
    /\ HasTable
    /\ T.next_id = MaxNextId + 1
    /\ last.op = "insert"
    /\ last.err = ""
    /\ last.ret # PyInt(MaxNextId)

---------------------------------------------------------------------------
(* C5: stored rows conform to the schema                                   *)

\* C5: after any sequence of inserts, updates and deletes every stored row
\* has exactly the table's columns as its keys and every stored value that is
\* not null has the kind of its column (Integer: whole number, Real: any
\* number, Text: string); an insert or update that supplies a value of a
\* disagreeing kind for a column raises TypeMismatchError; a null value is
\* accepted for a column of any type.
C5_SchemaConformance ==
    HasTable =>
        /\ \A i \in 1..Len(T.rows) :
              /\ DOMAIN T.rows[i] = DOMAIN T.column_map
              /\ \A c \in DOMAIN T.rows[i] : Agrees(T, c, T.rows[i][c])
        /\ \A v \in 1..Len(InsertValues) :
              ~WellTyped(T, InsertValues[v]) =>
                  insert(T, InsertValues[v]).err = "TypeMismatchError"
        /\ \A v \in 1..Len(UpdateValues), w \in WhereClauses :
              (~Undeclared(T, UpdateValues[v]) /\ ~WellTyped(T, UpdateValues[v])) =>
                  update(T, UpdateValues[v], w).err = "TypeMismatchError"
        /\ \A c \in DOMAIN T.column_map :
              /\ insert(T, c :> PyNone).err # "TypeMismatchError"
              /\ update(T, c :> PyNone, NoWhere).err = ""

---------------------------------------------------------------------------
(* C6: select of everything                                                *)

\* C6: select with no column list and no condition returns one result row per
\* stored row, each with every declared column in declaration order, in the
\* order of storage; and storage keeps the order of insertion: an insert adds
\* its row after the others, a delete leaves the remaining rows in their
\* order, an update leaves every row at its place.
C6_SelectAll ==
    HasTable =>
        LET r == SelectAll(T)
        IN  /\ r.err = ""
            /\ Len(r.ret) = Len(T.rows)
            /\ \A i \in 1..Len(T.rows) :
                  /\ Len(r.ret[i]) = Len(T.columns)
                  /\ \A j \in 1..Len(T.columns) :
                        r.ret[i][j] = <<T.columns[j].name, T.rows[i][T.columns[j].name]>>
            /\ \A v \in 1..Len(InsertValues) :
                  LET s == insert(T, InsertValues[v])
                  IN  s.err = "" =>
                          /\ Len(SelectAll(s.table).ret) = Len(r.ret) + 1
                          /\ SubSeq(SelectAll(s.table).ret, 1, Len(r.ret)) = r.ret
            /\ \A w \in WhereClauses :
                  LET d == delete(T, w)
                  IN  d.err = "" => IsSubseq(SelectAll(d.table).ret, r.ret)
            /\ \A v \in 1..Len(UpdateValues), w \in WhereClauses :
                  LET u == update(T, UpdateValues[v], w)
                  IN  u.err = "" =>
                          /\ Len(SelectAll(u.table).ret) = Len(r.ret)
                          /\ \A i \in 1..Len(r.ret) :
                                SelectAll(u.table).ret[i] \in
                                    {r.ret[i], Shown(T, Merged(T.rows[i], UpdateValues[v]))}

\* two rows are stored, and a select has just returned both with every column
\* in declaration order
C6_Witness ==
    /\ HasTable
    /\ Len(T.rows) = 2
    /\ last.op = "select"
    /\ last.err = ""
    /\ last.ret = ShownRows(T, T.rows)

---------------------------------------------------------------------------
(* C7: a conjunction of two conditions                                     *)

\* the select of all columns under the condition
SelectWhere(t, cond) == select(t, NoColumns, Where(cond))

\* C7, as stated: select with 'A AND B' returns exactly the stored rows that
\* satisfy both A and B, in storage order; its result is a subset of the
\* result of select with A alone and of select with B alone, and dropping a
\* conjunct never turns a successful select into a failing one.
C7_DroppingAConjunct ==
    HasTable =>
        \A a, b \in Atoms :
            LET ab == SelectWhere(T, a \o " AND " \o b)
            IN  ab.err = "" =>
                    /\ ab.ret = ShownRows(T, Keep(T.rows, {i \in 1..Len(T.rows) :
                                                  Sat(T.rows[i], a) /\ Sat(T.rows[i], b)}))
                    /\ SelectWhere(T, a).err = ""
                    /\ SelectWhere(T, b).err = ""
                    /\ IsSubseq(ab.ret, SelectWhere(T, a).ret)
                    /\ IsSubseq(ab.ret, SelectWhere(T, b).ret)

\* C7, amended: a select with 'A AND B' that succeeds returns exactly the
\* stored rows that satisfy both A and B, in storage order; select with A
\* alone then succeeds too and its result contains that of 'A AND B'; select
\* with B alone contains it whenever it succeeds, but it can fail, because B
\* is not evaluated on the rows where A is false.
C7_Conjunction ==
    HasTable =>
        \A a, b \in Atoms :
            LET ab == SelectWhere(T, a \o " AND " \o b)
            IN  ab.err = "" =>
                    /\ ab.ret = ShownRows(T, Keep(T.rows, {i \in 1..Len(T.rows) :
                                                  Sat(T.rows[i], a) /\ Sat(T.rows[i], b)}))
                    /\ SelectWhere(T, a).err = ""
                    /\ IsSubseq(ab.ret, SelectWhere(T, a).ret)
                    /\ SelectWhere(T, b).err = "" => IsSubseq(ab.ret, SelectWhere(T, b).ret)

\* a select has just returned the one row that satisfies both conditions of a
\* conjunction, where two rows satisfy the second
C7_Witness ==
    /\ HasTable
    /\ last.op = "select"
    /\ last.err = ""
    /\ \E a, b \in Atoms :
          LET ab == SelectWhere(T, a \o " AND " \o b)
          IN  /\ ab.err = ""
              /\ last.ret = ab.ret
              /\ Len(ab.ret) = 1
              /\ SelectWhere(T, b).err = ""
              /\ Len(SelectWhere(T, b).ret) = 2

---------------------------------------------------------------------------
(* C8: delete                                                              *)

\* C8: delete(cond) removes exactly the rows for which cond evaluates true,
\* returns the number of rows removed, keeps the remaining rows in their
\* order, and no removed row is in a later select of everything; delete with
\* no condition removes every row and returns the number of rows there were.
C8_Delete ==
    HasTable =>
        \A w \in WhereClauses :
            LET d == delete(T, w)
                removed == {i \in 1..Len(T.rows) : Matches(T.rows[i], w)}
            IN  d.err = "" =>
                    /\ d.table.rows = Keep(T.rows, (1..Len(T.rows)) \ removed)
                    /\ d.ret = Cardinality(removed)
                    /\ d.ret = Len(T.rows) - Len(d.table.rows)
                    /\ d.table = [T EXCEPT !.rows = d.table.rows]
                    /\ SelectAll(d.table).err = ""
                    /\ \A i \in removed, k \in 1..Len(SelectAll(d.table).ret) :
                          SelectAll(d.table).ret[k] # Shown(T, T.rows[i])
                    /\ ~w.given => d.table.rows = <<>> /\ d.ret = Len(T.rows)

\* a delete under a condition has just removed one row and left the other
C8_Witness ==
    /\ HasTable
    /\ Len(T.rows) = 1
    /\ last.op = "delete"
    /\ last.err = ""
    /\ last.ret = 1

---------------------------------------------------------------------------
(* C9: update                                                              *)

\* C9, as stated: update(values, cond) returns the number of rows whose
\* values changed, merges values into every matching row, keeping the row's
\* fields that values does not name, and leaves every other row as it was.
C9_CountsChangedRows ==
    HasTable =>
        \A v \in 1..Len(UpdateValues), w \in WhereClauses :
            LET u == update(T, UpdateValues[v], w)
            IN  u.err = "" =>
                    /\ Len(u.table.rows) = Len(T.rows)
                    /\ u.ret = Cardinality({i \in 1..Len(T.rows) : u.table.rows[i] # T.rows[i]})
                    /\ \A i \in 1..Len(T.rows) :
                          u.table.rows[i] = IF i \in Matching(T.rows, w)
                                            THEN Merged(T.rows[i], UpdateValues[v])
                                            ELSE T.rows[i]

\* C9, amended: update(values, cond) returns the number of rows that match
\* cond (of all rows when cond is absent), whether or not the merge changed
\* them; it merges values into every matching row, keeping the row's fields
\* that values does not name, and leaves every other row as it was.
C9_CountsMatchingRows ==
    HasTable =>
        \A v \in 1..Len(UpdateValues), w \in WhereClauses :
            LET u == update(T, UpdateValues[v], w)
            IN  u.err = "" =>
                    /\ Len(u.table.rows) = Len(T.rows)
                    /\ u.ret = Cardinality(Matching(T.rows, w))
                    /\ \A i \in 1..Len(T.rows) :
                          u.table.rows[i] = IF i \in Matching(T.rows, w)
                                            THEN Merged(T.rows[i], UpdateValues[v])
                                            ELSE T.rows[i]
                    /\ u.table = [T EXCEPT !.rows = u.table.rows]

\* an update under a condition has just merged a name into one row of two
C9_Witness ==
    /\ HasTable
    /\ Len(T.rows) = 2
    /\ last.op = "update"
    /\ last.err = ""
    /\ last.ret = 1
    /\ \E i \in 1..2 : "name" \in DOMAIN T.rows[i] /\ T.rows[i]["name"] = PyStr("b")

---------------------------------------------------------------------------
(* C10: create_table                                                       *)

\* the column list has a column of an unsupported type
Unsupported(columns) ==
    \E i \in 1..Len(columns) : Upper(columns[i][2]) \notin {"INTEGER", "TEXT", "REAL"}

\* C10: create_table of a registered name fails with DuplicateTableError;
\* create_table with a column of an unsupported type or with no column
\* fails; and a create_table that fails leaves the registry as it was: the
\* same names, every table with its rows and its next_id.
C10_CreateTable ==
    \A name \in TableNames, c \in 1..Len(ColumnSpecs) :
        LET r == create_table(tables, name, ColumnSpecs[c])
        IN  /\ name \in DOMAIN tables => r.err = "DuplicateTableError"
            /\ (Unsupported(ColumnSpecs[c]) \/ ColumnSpecs[c] = <<>>) => r.err # ""
            /\ r.err # "" =>
                  /\ DOMAIN r.tables = DOMAIN tables
                  /\ \A n \in DOMAIN tables :
                        /\ r.tables[n].rows = tables[n].rows
                        /\ r.tables[n].next_id = tables[n].next_id
                        /\ r.tables[n] = tables[n]

\* a create_table of the name of a table that stores a row has just failed
\* with DuplicateTableError, and the row is still there
C10_Witness ==
    /\ last.op = "create_table"
    /\ last.err = "DuplicateTableError"
    /\ \E n \in DOMAIN tables : Len(tables[n].rows) = 2 /\ tables[n].next_id = 3

---------------------------------------------------------------------------
(* C11: select reads only                                                  *)

\* C11: a select, successful or failing, leaves the table's rows and next_id
\* (and the rest of the table) as they were, and the same select called
\* again, with no insert, update or delete in between, ends the same way:
\* the same error or the same result.
C11_SelectReadOnly ==
    HasTable =>
        \A c \in SelectColumns, w \in WhereClauses :
            LET r == select(T, c, w)
            IN  /\ r.table.rows = T.rows
                /\ r.table.next_id = T.next_id
                /\ r.table = T
                /\ select(r.table, c, w).err = r.err
                /\ select(r.table, c, w).ret = r.ret

\* two rows are stored, and a select under a condition has just returned one
\* of them
C11_Witness ==
    /\ HasTable
    /\ Len(T.rows) = 2
    /\ last.op = "select"
    /\ last.err = ""
    /\ Len(last.ret) = 1

---------------------------------------------------------------------------
(* C12: what the evaluator raises                                          *)

\* the literals of the comparison atoms: an integer, a real, a text
Literals == {"1", "1.5", "b"}

\* C12: evaluating a predicate on a row raises only UnknownColumnError or
\* MalformedPredicateError; a comparison atom '<column> <op> <literal>' on a
\* column of the row returns a boolean, for every operator >=, <=, <>, =, >,
\* < and every stored value (integer, real, text or null).
C12_EvaluatorErrors ==
    HasTable =>
        \A i \in 1..Len(T.rows) :
            /\ \A w \in WhereClauses :
                  w.given =>
                      evaluate_where(T.rows[i], w.v).err \in
                          {"", "UnknownColumnError", "MalformedPredicateError"}
            /\ \A c \in DOMAIN T.rows[i], op \in 1..Len(Operators), literal \in Literals :
                  evaluate_where(T.rows[i],
                                 c \o " " \o Operators[op] \o " " \o literal).err = ""

---------------------------------------------------------------------------
(* C13: LIKE                                                               *)

\* the reference matcher: % is any run of characters, _ any one character,
\* any other character of the pattern itself; the whole value is matched
RECURSIVE WildcardMatch(_, _)
WildcardMatch(pattern, value) ==
    IF pattern = "" THEN value = ""
    ELSE IF Head(pattern) = "%"
    THEN \E k \in 0..Len(value) :
            WildcardMatch(Tail(pattern), SubSeq(value, k + 1, Len(value)))
    ELSE /\ value # ""
         /\ Head(pattern) = "_" \/ Head(pattern) = Head(value)
         /\ WildcardMatch(Tail(pattern), Tail(value))

\* C13: '<column> LIKE <pattern>' is true exactly when the whole text of the
\* column value matches the pattern, % matching any run of characters, _
\* exactly one character and every other character of the pattern only
\* itself.
C13_LikeIsWildcardMatch ==
    last.op = "evaluate_where" =>
        /\ last.err = ""
        /\ last.ret[2] = WildcardMatch(last.ret[1], PyStrOf(T.rows[1]["name"]))

---------------------------------------------------------------------------
(* C14: a condition that raises                                            *)

\* C14: an update or a delete that raises while it evaluates its condition
\* on some row commits nothing: every stored row, the matching rows before
\* the offending one included, is after the failed call what it was before.
C14_ConditionFailureCommitsNothing ==
    HasTable =>
        /\ \A v \in 1..Len(UpdateValues), w \in WhereClauses :
              LET u == update(T, UpdateValues[v], w)
              IN  u.err # "" => u.table.rows = T.rows
        /\ \A w \in WhereClauses :
              LET d == delete(T, w)
              IN  d.err # "" => d.table.rows = T.rows

---------------------------------------------------------------------------
(* C15: a generated id that is taken                                       *)

\* next_id is the primary key of a stored row
NextIdTaken(t) == SharesKey(t, PyInt(t.next_id))

\* C15: whenever next_id is the primary key of a stored row (a state that
\* successful inserts alone reach, because next_id advances on inserts that
\* supply their key), an insert that omits the primary key fails with
\* UniqueConstraintError and changes nothing; nothing in insert avoids the
\* collision.
C15_AutoIdCollision ==
    HasTable =>
        (NextIdTaken(T) =>
            /\ insert(T, Mapping0).err = "UniqueConstraintError"
            /\ insert(T, Mapping0).table = T)

\* one insert that supplied its key has succeeded, next_id is that key, and
\* the next insert has just been refused
C15_Witness ==
    /\ HasTable
    /\ Len(T.rows) = 1
    /\ T.next_id = 2
    /\ T.rows[1][T.primary_key] = PyInt(2)
    /\ NextIdTaken(T)
    /\ last.op = "insert"
    /\ last.err = "UniqueConstraintError"

---------------------------------------------------------------------------
(* C16: select, update and delete on one condition                         *)

\* the value mappings update accepts: declared columns, values that agree
ValidUpdates(t) ==
    {v \in 1..Len(UpdateValues) :
        ~Undeclared(t, UpdateValues[v]) /\ WellTyped(t, UpdateValues[v])}

\* the rows of t that are not among the result rows
NotAmong(t, ret) ==
    Keep(t.rows, {i \in 1..Len(t.rows) :
                     \A k \in 1..Len(ret) : ret[k] # Shown(t, t.rows[i])})

\* update(values, c) and delete(c) end as select(None, c) does: they succeed
\* when it does, with its number of rows as their count, and delete removes
\* its rows
AgreeOn(t, c) ==
    LET s == select(t, NoColumns, c)
        d == delete(t, c)
    IN  /\ d.err = s.err
        /\ s.err = "" => d.ret = Len(s.ret) /\ d.table.rows = NotAmong(t, s.ret)
        /\ \A v \in ValidUpdates(t) :
              LET u == update(t, UpdateValues[v], c)
              IN  /\ u.err = s.err
                  /\ s.err = "" => u.ret = Len(s.ret)

\* C16: for every table state and every condition argument
\* (absent, the empty string, a predicate), update and delete succeed exactly
\* when select(None, c) succeeds, their counts are the number of rows it
\* returns, and delete removes exactly those rows.
C16_SameRowsSelected ==
    HasTable => \A c \in WhereClauses : AgreeOn(T, c)

\* What does hold: the three agree on every condition argument that is absent
\* or a predicate other than the empty string; under the empty string select
\* returns every row, as with no condition, while update and delete evaluate
\* it as a predicate and, when a row is stored, raise MalformedPredicateError
\* and change nothing.
SameRowsUnlessEmpty ==
    HasTable =>
        /\ \A c \in WhereClauses \ {Where("")} : AgreeOn(T, c)
        /\ select(T, NoColumns, Where("")).err = ""
        /\ select(T, NoColumns, Where("")).ret = SelectAll(T).ret
        /\ LET d == delete(T, Where(""))
           IN  /\ d.err = IF T.rows = <<>> THEN "" ELSE "MalformedPredicateError"
               /\ d.table.rows = T.rows
        /\ \A v \in ValidUpdates(T) :
              LET u == update(T, UpdateValues[v], Where(""))
              IN  /\ u.err = IF T.rows = <<>> THEN "" ELSE "MalformedPredicateError"
                  /\ u.table.rows = T.rows

===========================================================================
